---- MODULE Spec2Model ----
(***************************************************************************)
(* Order risk scoring and notification pipeline of the Smart Order Risk    *)
(* Analyzer: the order-created webhook (routes/webhooks.orders.created),   *)
(* analyzeOrderRisk (utils/riskAnalysis.server), sendRiskNotifications     *)
(* (utils/notifications.server), the realtime channel                      *)
(* (utils/websocket.server) and the MongoDB-backed repositories            *)
(* (models/order.server, models/store.server).                             *)
(*                                                                         *)
(* Conventions.  A JavaScript value that may be null/undefined is a tuple  *)
(* of length 0 (absent) or 1 (present): <<>> or <<v>>.  A MongoDB          *)
(* collection is the sequence of its documents in insertion order.  Money  *)
(* is counted in cents.                                                    *)
(***************************************************************************)
EXTENDS Integers, Sequences, FiniteSets, TLC

VARIABLES
    riskIn,        \* arguments and configuration reads of one analyzeOrderRisk call
    riskOut,       \* its returned verdict, <<>> before the call returns
    storeSettings, \* collection 'storeSettings'
    trialStatus,   \* collection 'trialStatus'
    orders,        \* collection 'orders'
    req,           \* per delivery: the inbound request, <<>> before it arrives
    pc,            \* per delivery: where action/processWebhook stands
    loc,           \* per delivery: processWebhook's and sendRiskNotifications' locals
    responses,     \* per delivery: the HTTP responses produced for it
    err,           \* per delivery: the exception raised, and the handler that caught it
    trace,         \* per delivery: the stages completed, in order
    dispatched,    \* the email / chat notifications handed to the transports
    shopConnections, \* websocket.server.ts: shop id -> set of registered sockets
    sockets,       \* per socket: readyState, handlers' shop id, messages sent, close call
    broadcasts,    \* the broadcastUpdate calls made so far, with their arguments
    writes         \* the order repository functions called directly so far, by name

vars == <<riskIn, riskOut, storeSettings, trialStatus, orders, req, pc, loc,
          responses, err, trace, dispatched, shopConnections, sockets, broadcasts,
          writes>>

riskVars == <<riskIn, riskOut>>
wsVars == <<shopConnections, sockets, broadcasts>>
storeVars == <<storeSettings, trialStatus, writes>>
hookVars == <<orders, req, pc, loc, responses, err, trace, dispatched>>

None == << >>
Some(v) == <<v>>
IsSome(o) == o # << >>
Get(o) == o[1]

-----------------------------------------------------------------------------
(* Bounds of the model *)

\* thresholds are drawn from {0, 25, ..., 25 * MaxThresholdStep}
MaxThresholdStep == 4
\* number of webhook deliveries
MaxDeliveries == 2
\* number of realtime connections
MaxSockets == 2
\* calls of broadcastUpdate explored
MaxBroadcasts == 2
\* direct calls of the order repository explored
MaxWrites == 4

-----------------------------------------------------------------------------
(* riskAnalysis.server.ts: constants of analyzeOrderRisk *)

DefaultHighThreshold == 75
DefaultMediumThreshold == 50
HighValueLimit == 1000
MediumValueLimit == 500
HighValueScore == 20
MediumValueScore == 10
AddressMismatchScore == 15
EmailDomainScore == 25
IpLocationScore == 5
OrderTimeScore == 10
GiftCardScore == 15
LateHourFrom == 22
LateHourTo == 4

FactorNames == {"orderValue", "customerHistory", "ipLocation", "checkoutSpeed",
                "addressMismatch", "emailDomain", "orderTime", "giftCardUse",
                "quantitySpike"}

\* riskAnalysis.server.ts:23-33, store.server.ts:73-83
AllFactorsEnabled == [f \in FactorNames |-> TRUE]

DefaultRiskThresholds == [high |-> DefaultHighThreshold, medium |-> DefaultMediumThreshold]

\* the disposable domains of line 101-104
suspiciousDomains == {"tempmail.com", "throwawaymail.com", "mailinator.com",
                      "guerrillamail.com", "yopmail.com", "sharklasers.com"}

\* String.prototype.toLowerCase on the strings the model uses
ToLowerCase(s) ==
    CASE s = "MAILINATOR.COM" -> "mailinator.com"
      [] s = "Bob" -> "bob"
      [] s = "Gift Card" -> "gift card"
      [] OTHER -> s

\* String.prototype.includes('gift') on the lower-cased gateway names
IncludesGift(s) == s \in {"gift card", "gift_card"}

\* parseFloat: a numeric text gives its number (in cents), anything else NaN (None)
ParseFloat(raw) == IF Len(raw) = 2 /\ raw[1] = "num" THEN Some(raw[2]) ELSE None

\* x > limit in JavaScript: false when x is NaN
NumGT_Inclusive(x, limit) == IsSome(x) /\ Get(x) >= limit
NumGT(x, limit) == IsSome(x) /\ Get(x) > limit

\* a string is truthy when it is present and not empty
Truthy_EmptyIncluded(o) == IsSome(o)
Truthy(o) == IsSome(o) /\ Get(o) # ""

\* riskAnalysis.server.ts:36
IsPro_PlanIgnored(trial) == IsSome(trial)
IsPro(trial) ==
    /\ IsSome(trial)
    /\ \/ Get(trial).isActive
       \/ Get(trial).plan = "pro"
       \/ Get(trial).plan = "business"

\* riskAnalysis.server.ts:22
RiskThresholdsOf(settings) ==
    IF IsSome(settings) THEN Get(settings).riskThresholds ELSE DefaultRiskThresholds

\* riskAnalysis.server.ts:23-33
EnabledFactorsOf(settings) ==
    IF IsSome(settings) THEN Get(settings).riskFactors ELSE AllFactorsEnabled

\* riskAnalysis.server.ts:39-51
FactorsToCheck(isPro, enabledFactors) ==
    IF isPro THEN enabledFactors
    ELSE [f \in FactorNames |-> f \in {"orderValue", "addressMismatch", "emailDomain"}]

\* Each factor check yields the list of RiskFactorResult it pushes (0 or 1 entries).

\* riskAnalysis.server.ts:58-77
CheckOrderValue(order, factorsToCheck) ==
    IF ~factorsToCheck["orderValue"] THEN << >>
    ELSE LET totalPrice == ParseFloat(order.total_price) IN
         IF NumGT(totalPrice, HighValueLimit * 100)
         THEN << [factor |-> "orderValue", description |-> "High value order",
                  riskContribution |-> HighValueScore] >>
         ELSE IF NumGT(totalPrice, MediumValueLimit * 100)
         THEN << [factor |-> "orderValue", description |-> "Medium-high value order",
                  riskContribution |-> MediumValueScore] >>
         ELSE << >>

\* riskAnalysis.server.ts:80-96
CheckAddressMismatch_ZipOnly(order, factorsToCheck) ==
    IF factorsToCheck["addressMismatch"] /\ IsSome(order.billing_address)
                                         /\ IsSome(order.shipping_address)
                                         /\ Get(order.billing_address).zip
                                               # Get(order.shipping_address).zip
    THEN << [factor |-> "addressMismatch",
             description |-> "Billing and shipping addresses don't match",
             riskContribution |-> AddressMismatchScore] >>
    ELSE << >>
CheckAddressMismatch(order, factorsToCheck) ==
    IF factorsToCheck["addressMismatch"] /\ IsSome(order.billing_address)
                                         /\ IsSome(order.shipping_address)
    THEN LET billing == Get(order.billing_address)
             shipping == Get(order.shipping_address) IN
         IF \/ billing.zip # shipping.zip
            \/ billing.city # shipping.city
            \/ billing.country # shipping.country
         THEN << [factor |-> "addressMismatch",
                  description |-> "Billing and shipping addresses don't match",
                  riskContribution |-> AddressMismatchScore] >>
         ELSE << >>
    ELSE << >>

\* riskAnalysis.server.ts:99-115; an email is the list of its '@'-separated parts
\* (email.split('@')), the empty string being << "" >>
CheckEmailDomain(order, factorsToCheck) ==
    IF factorsToCheck["emailDomain"] /\ IsSome(order.customer)
                                     /\ IsSome(Get(order.customer).email)
                                     /\ Get(Get(order.customer).email) # << "" >>
    THEN LET email == [i \in DOMAIN Get(Get(order.customer).email) |->
                          ToLowerCase(Get(Get(order.customer).email)[i])] IN
         IF Len(email) >= 2 /\ email[2] # "" /\ email[2] \in suspiciousDomains
         THEN << [factor |-> "emailDomain", description |-> "Suspicious email domain",
                  riskContribution |-> EmailDomainScore] >>
         ELSE << >>
    ELSE << >>

\* riskAnalysis.server.ts:120-129
CheckIpLocation(order, factorsToCheck) ==
    IF factorsToCheck["ipLocation"] /\ Truthy(order.browser_ip)
    THEN << [factor |-> "ipLocation", description |-> "IP address tracking enabled",
             riskContribution |-> IpLocationScore] >>
    ELSE << >>

\* riskAnalysis.server.ts:132-145; created_at carries the server-local hour of day
CheckOrderTime(order, factorsToCheck) ==
    IF factorsToCheck["orderTime"] /\ IsSome(order.created_at)
    THEN LET hourOfDay == Get(order.created_at) IN
         IF hourOfDay >= LateHourFrom \/ hourOfDay <= LateHourTo
         THEN << [factor |-> "orderTime",
                  description |-> "Order placed during unusual hours",
                  riskContribution |-> OrderTimeScore] >>
         ELSE << >>
    ELSE << >>

\* riskAnalysis.server.ts:148-157
CheckGiftCardUse(order, factorsToCheck) ==
    IF factorsToCheck["giftCardUse"] /\ IsSome(order.payment_gateway_names)
    THEN LET names == Get(order.payment_gateway_names) IN
         IF \E i \in DOMAIN names : IncludesGift(ToLowerCase(names[i]))
         THEN << [factor |-> "giftCardUse", description |-> "Payment with gift card",
                  riskContribution |-> GiftCardScore] >>
         ELSE << >>
    ELSE << >>

\* riskAnalysis.server.ts:118-158
CheckProFactors(order, isPro, factorsToCheck) ==
    IF isPro
    THEN CheckIpLocation(order, factorsToCheck)
           \o CheckOrderTime(order, factorsToCheck)
           \o CheckGiftCardUse(order, factorsToCheck)
    ELSE << >>

\* riskAnalysis.server.ts:54-158: the riskFactors array, in evaluation order
RiskFactorsOf(order, isPro, factorsToCheck) ==
    CheckOrderValue(order, factorsToCheck)
      \o CheckAddressMismatch(order, factorsToCheck)
      \o CheckEmailDomain(order, factorsToCheck)
      \o CheckProFactors(order, isPro, factorsToCheck)

RECURSIVE SumContributions(_)
\* totalRiskScore: the running sum of the riskContribution of each pushed factor
SumContributions(fs) ==
    IF fs = << >> THEN 0 ELSE fs[1].riskContribution + SumContributions(Tail(fs))

\* riskAnalysis.server.ts:161-168
RiskLevel_StrictlyAbove(score, thresholds) ==
    IF score > thresholds.high THEN "high"
    ELSE IF score > thresholds.medium THEN "medium"
    ELSE "low"
RiskLevel(score, thresholds) ==
    IF score >= thresholds.high THEN "high"
    ELSE IF score >= thresholds.medium THEN "medium"
    ELSE "low"

\* riskAnalysis.server.ts:171-180
StatusOf_ReviewFirst(riskLevel, settings) ==
    IF riskLevel = "high" /\ IsSome(settings) /\ Get(settings).automations.flagForReview
    THEN "pending"
    ELSE IF riskLevel = "high" /\ IsSome(settings)
                               /\ Get(settings).automations.holdHighRiskOrders
    THEN "on_hold"
    ELSE IF riskLevel = "high" /\ IsSome(settings)
                               /\ Get(settings).automations.cancelHighRiskOrders
    THEN "declined"
    ELSE "approved"
StatusOf_DefaultsWhenAbsent(riskLevel, settings) ==
    IF riskLevel = "high" /\ (settings = None \/ Get(settings).automations.holdHighRiskOrders)
    THEN "on_hold"
    ELSE IF riskLevel = "high" /\ IsSome(settings) /\ Get(settings).automations.flagForReview
    THEN "pending"
    ELSE IF riskLevel = "high" /\ IsSome(settings)
                               /\ Get(settings).automations.cancelHighRiskOrders
    THEN "declined"
    ELSE "approved"
StatusOf(riskLevel, settings) ==
    IF riskLevel = "high" /\ IsSome(settings) /\ Get(settings).automations.holdHighRiskOrders
    THEN "on_hold"
    ELSE IF riskLevel = "high" /\ IsSome(settings) /\ Get(settings).automations.flagForReview
    THEN "pending"
    ELSE IF riskLevel = "high" /\ IsSome(settings)
                               /\ Get(settings).automations.cancelHighRiskOrders
    THEN "declined"
    ELSE "approved"

\* riskAnalysis.server.ts:189
CapturedIp(order) ==
    IF Truthy(order.browser_ip) THEN order.browser_ip
    ELSE IF IsSome(order.client_details) THEN Get(order.client_details).browser_ip
    ELSE None

\* riskAnalysis.server.ts:16-192, after its two configuration reads
AnalyzeOrderRisk(order, settings, trial) ==
    LET riskThresholds == RiskThresholdsOf(settings)
        enabledFactors == EnabledFactorsOf(settings)
        isPro == IsPro(trial)
        factorsToCheck == FactorsToCheck(isPro, enabledFactors)
        riskFactors == RiskFactorsOf(order, isPro, factorsToCheck)
        totalRiskScore == SumContributions(riskFactors)
        riskLevel == RiskLevel(totalRiskScore, riskThresholds)
    IN  [score |-> totalRiskScore,
         level |-> riskLevel,
         factors |-> [i \in DOMAIN riskFactors |-> riskFactors[i].description],
         reviewed |-> FALSE,
         status |-> StatusOf(riskLevel, settings),
         ipAddress |-> CapturedIp(order),
         checkoutSpeed |-> None]

-----------------------------------------------------------------------------
(* The inputs analyzeOrderRisk is applied to *)

NumText(cents) == <<"num", cents>>

\* total_price: absent, not a number, and prices around the two limits
TotalPrices == {None, <<"abc">>, NumText(MediumValueLimit * 100),
                NumText(MediumValueLimit * 100 + 1), NumText(HighValueLimit * 100),
                NumText(HighValueLimit * 100 + 1)}

HomeAddress == [zip |-> "10001", city |-> "New York", country |-> "US"]

\* billing / shipping pairs: absent ones, identical ones, and one field differing
AddressPairs ==
    { <<None, None>>, <<Some(HomeAddress), None>>, <<None, Some(HomeAddress)>>,
      <<Some(HomeAddress), Some(HomeAddress)>>,
      <<Some(HomeAddress), Some([HomeAddress EXCEPT !.zip = "94105"])>>,
      <<Some(HomeAddress), Some([HomeAddress EXCEPT !.city = "Boston"])>>,
      <<Some(HomeAddress), Some([HomeAddress EXCEPT !.country = "CA"])>> }

\* customer: absent, without email, and emails with an ordinary / a disposable domain
Customers == {None, Some([email |-> None]),
              Some([email |-> Some(<<"bob", "gmail.com">>)]),
              Some([email |-> Some(<<"Bob", "MAILINATOR.COM">>)])}

ClientIp == "203.0.113.7"

\* order-level browser_ip and client_details.browser_ip
IpFields == { <<None, None>>, <<Some(ClientIp), None>>,
              <<None, Some([browser_ip |-> Some(ClientIp)])>>,
              <<Some(""), Some([browser_ip |-> Some(ClientIp)])>> }

CreatedAts == {None, Some(12), Some(23)}

GatewayLists == {None, Some(<<"shopify_payments">>),
                 Some(<<"shopify_payments", "Gift Card">>)}

MakeOrder(id, price, addr, customer, ip, createdAt, gateways) ==
    [id |-> id, total_price |-> price,
     billing_address |-> addr[1], shipping_address |-> addr[2],
     customer |-> customer, browser_ip |-> ip[1], client_details |-> ip[2],
     created_at |-> createdAt, payment_gateway_names |-> gateways]

OrderId == "1001"

\* every combination of the fields above
AllOrders ==
    { MakeOrder(Some(OrderId), p, a, c, i, t, g) :
        p \in TotalPrices, a \in AddressPairs, c \in Customers, i \in IpFields,
        t \in CreatedAts, g \in GatewayLists }

\* an order on which every implemented factor triggers (score 90 for a pro tenant)
RiskyOrder ==
    MakeOrder(Some(OrderId), NumText(HighValueLimit * 100 + 1),
              <<Some(HomeAddress), Some([HomeAddress EXCEPT !.country = "CA"])>>,
              Some([email |-> Some(<<"Bob", "MAILINATOR.COM">>)]),
              <<Some(ClientIp), None>>, Some(23),
              Some(<<"shopify_payments", "Gift Card">>))

PlainOrderId == "1002"

\* an order on which no factor triggers
PlainOrder ==
    MakeOrder(Some(PlainOrderId), NumText(MediumValueLimit * 100),
              <<Some(HomeAddress), Some(HomeAddress)>>,
              Some([email |-> Some(<<"bob", "gmail.com">>)]),
              <<None, None>>, Some(12), Some(<<"shopify_payments">>))

\* the orders that differ from RiskyOrder in at most one field
PivotOrders ==
    { o \in AllOrders :
        Cardinality({f \in DOMAIN o : o[f] # RiskyOrder[f]}) <= 1 }

Shop == "s1.myshopify.com"

ThresholdValues == {25 * i : i \in 0..MaxThresholdStep}

\* store.server.ts:95-101 (the three flags analyzeOrderRisk reads)
DefaultAutomations ==
    [holdHighRiskOrders |-> TRUE, flagForReview |-> TRUE, cancelHighRiskOrders |-> FALSE]

AutomationSets ==
    [holdHighRiskOrders : BOOLEAN, flagForReview : BOOLEAN, cancelHighRiskOrders : BOOLEAN]

\* store.server.ts:84-94
DefaultNotifications ==
    [email |-> [enabled |-> TRUE, address |-> ""],
     slack |-> [enabled |-> FALSE, webhookUrl |-> ""],
     frequency |-> "immediate"]

\* store.server.ts:67-108
DefaultStoreSettings(shopId) ==
    [shopId |-> shopId,
     riskThresholds |-> DefaultRiskThresholds,
     riskFactors |-> AllFactorsEnabled,
     notifications |-> DefaultNotifications,
     automations |-> DefaultAutomations]

\* toggle states: each factor switched on or off alone, and all on / all off
FactorToggles ==
    {AllFactorsEnabled, [f \in FactorNames |-> FALSE]}
      \cup {[AllFactorsEnabled EXCEPT ![f] = FALSE] : f \in FactorNames}
      \cup {[g \in FactorNames |-> g = f] : f \in FactorNames}

\* configuration records: every threshold pair and automation set with the default
\* toggles, and every toggle state with the default thresholds
SettingsDocs ==
    { [DefaultStoreSettings(Shop) EXCEPT !.riskThresholds = [high |-> h, medium |-> m],
                                         !.automations = a] :
        h \in ThresholdValues, m \in ThresholdValues, a \in AutomationSets }
      \cup { [DefaultStoreSettings(Shop) EXCEPT !.riskFactors = t] : t \in FactorToggles }

\* store.server.ts:47-55 (the fields the scoring and the dispatcher read)
TrialDocs == [shopId : {Shop}, isActive : BOOLEAN, plan : {"free", "pro", "business"}]

\* store.server.ts:149-157
DefaultTrialStatus(shopId) == [shopId |-> shopId, isActive |-> FALSE, plan |-> "free"]

OptOf(S) == {None} \cup {Some(x) : x \in S}

\* the calls explored: every order under no / the default configuration, and the
\* pivot orders under every configuration record
RiskInputs ==
    [order : AllOrders, settings : {None, Some(DefaultStoreSettings(Shop))},
     trial : OptOf(TrialDocs)]
      \cup [order : PivotOrders \cup {PlainOrder}, settings : OptOf(SettingsDocs),
            trial : OptOf(TrialDocs)]

NoDeliveries == [d \in 1..MaxDeliveries |-> None]

RiskInit ==
    /\ riskIn \in RiskInputs
    /\ riskOut = None
    /\ storeSettings = << >> /\ trialStatus = << >> /\ orders = << >>
    /\ writes = << >>
    /\ req = NoDeliveries /\ pc = [d \in 1..MaxDeliveries |-> "idle"]
    /\ loc = NoDeliveries /\ responses = NoDeliveries /\ err = NoDeliveries
    /\ trace = NoDeliveries /\ dispatched = {}
    /\ shopConnections = << >> /\ sockets = << >> /\ broadcasts = << >>

\* one call of analyzeOrderRisk returning its verdict
Analyze ==
    /\ riskOut = None
    /\ riskOut' = Some(AnalyzeOrderRisk(riskIn.order, riskIn.settings, riskIn.trial))
    /\ UNCHANGED <<riskIn, storeVars, hookVars, wsVars>>

RiskNext == Analyze

SpecRisk == RiskInit /\ [][RiskNext]_vars

-----------------------------------------------------------------------------
(* The realtime channel: websocket.server.ts *)

Sockets == 1..MaxSockets

OtherShop == "s2.myshopify.com"

\* WebSocket.readyState: CONNECTING, OPEN, CLOSING, CLOSED
OPEN == 1
CONNECTING == OPEN - 1
CLOSING == OPEN + 1
CLOSED == OPEN + 2

\* the 'shop' query value of a connection attempt
ShopQueries == {None, Some(""), Some(Shop), Some(OtherShop)}

\* websocket.server.ts:6
NoConnections == [k \in {} |-> {}]

NewSocket ==
    [readyState |-> CONNECTING, shopId |-> None, sent |-> << >>, closeCall |-> None,
     lastEvent |-> "none"]

\* websocket.server.ts:37-40
ConnectionMessage == [type |-> "connection", message |-> "Connected to order updates"]

\* websocket.server.ts:74-77
UpdateMessage(data) == [type |-> "update", data |-> data]

\* websocket.server.ts:31-34
Register(registry, shopId, s) ==
    [k \in DOMAIN registry \cup {shopId} |->
        IF k = shopId
        THEN (IF k \in DOMAIN registry THEN registry[k] ELSE {}) \cup {s}
        ELSE registry[k]]

\* websocket.server.ts:45-50
Unregister_NoPrune(registry, shopId, s) ==
    [k \in DOMAIN registry |-> IF k = shopId THEN registry[k] \ {s} ELSE registry[k]]
Unregister(registry, shopId, s) ==
    LET removed == [k \in DOMAIN registry |->
                       IF k = shopId THEN registry[k] \ {s} ELSE registry[k]]
    IN  IF shopId \in DOMAIN removed /\ removed[shopId] = {}
        THEN [k \in DOMAIN removed \ {shopId} |-> removed[k]]
        ELSE removed

\* the sockets registered under shopId whose readyState is OPEN
OpenSubscribers_AnyState(shopId) ==
    IF shopId \in DOMAIN shopConnections THEN shopConnections[shopId] ELSE {}
OpenSubscribers_Everyone(shopId) == Sockets
OpenSubscribers(shopId) ==
    IF shopId \in DOMAIN shopConnections
    THEN {s \in shopConnections[shopId] : sockets[s].readyState = OPEN}
    ELSE {}

\* websocket.server.ts:18-57: the 'connection' event of socket s with query value q
WsConnection(s, q) ==
    /\ sockets[s].readyState = CONNECTING
    /\ IF ~Truthy(q)
       THEN /\ sockets' = [sockets EXCEPT ![s].readyState = CLOSING,
                                          ![s].lastEvent = "connection",
                                          ![s].closeCall = Some([code |-> 1003,
                                                                 reason |-> "Shop ID is required"])]
            /\ UNCHANGED shopConnections
       ELSE /\ shopConnections' = Register(shopConnections, Get(q), s)
            /\ sockets' = [sockets EXCEPT ![s].readyState = OPEN,
                                          ![s].lastEvent = "connection",
                                          ![s].shopId = q,
                                          ![s].sent = Append(@, ConnectionMessage)]
    /\ UNCHANGED <<riskVars, storeVars, hookVars, broadcasts>>

\* the peer starts the closing handshake: readyState leaves OPEN
WsPeerClosing(s) ==
    /\ sockets[s].readyState = OPEN
    /\ sockets' = [sockets EXCEPT ![s].readyState = CLOSING]
    /\ UNCHANGED <<riskVars, storeVars, hookVars, shopConnections, broadcasts>>

\* websocket.server.ts:54-56: the 'error' event; the handler only logs, the library
\* has put the socket in CLOSING
WsError(s) ==
    /\ sockets[s].readyState = OPEN
    /\ sockets' = [sockets EXCEPT ![s].readyState = CLOSING, ![s].lastEvent = "error"]
    /\ UNCHANGED <<riskVars, storeVars, hookVars, shopConnections, broadcasts>>

\* websocket.server.ts:43-51: the 'close' event; the handler, if one was registered,
\* removes the socket and prunes an empty set
WsClose(s) ==
    /\ sockets[s].readyState \in {OPEN, CLOSING}
    /\ sockets' = [sockets EXCEPT ![s].readyState = CLOSED, ![s].lastEvent = "close"]
    /\ shopConnections' =
          IF IsSome(sockets[s].shopId)
          THEN Unregister(shopConnections, Get(sockets[s].shopId), s)
          ELSE shopConnections
    /\ UNCHANGED <<riskVars, storeVars, hookVars, broadcasts>>

WsEvents ==
    \E s \in Sockets :
        \/ \E q \in ShopQueries : WsConnection(s, q)
        \/ WsPeerClosing(s)
        \/ WsError(s)
        \/ WsClose(s)

\* the payloads broadcast: a generic one, and an order summary for notifyNewOrder
Payloads == {[event |-> "order_updated", order |-> OrderId]}
OrderSummaries == {OrderId}

\* websocket.server.ts:67-87: broadcastUpdate(shopId, data).  Without a connection
\* set for the shop it returns at once; otherwise every registered socket whose
\* readyState is OPEN is sent the envelope.
BroadcastUpdate(shopId, data) ==
    /\ Len(broadcasts) < MaxBroadcasts
    /\ broadcasts' = Append(broadcasts, [shopId |-> shopId, data |-> data])
    /\ sockets' = [s \in Sockets |->
                      IF s \in OpenSubscribers(shopId)
                      THEN [sockets[s] EXCEPT !.sent = Append(@, UpdateMessage(data))]
                      ELSE sockets[s]]
    /\ UNCHANGED <<riskVars, storeVars, hookVars, shopConnections>>

\* websocket.server.ts:94-99
NotifyNewOrder(shopId, orderData) ==
    BroadcastUpdate(shopId, [event |-> "new_order", order |-> orderData])

Broadcasts ==
    \E shopId \in {Shop, OtherShop} :
        \/ \E data \in Payloads : BroadcastUpdate(shopId, data)
        \/ \E orderData \in OrderSummaries : NotifyNewOrder(shopId, orderData)

-----------------------------------------------------------------------------
(* The order-created webhook: webhooks.orders.created.tsx, order.server.ts,   *)
(* notifications.server.ts                                                    *)

Deliveries == 1..MaxDeliveries

\* raw request bodies: one that is not JSON, and the JSON text of an order
GarbageBody == "{not json"
RiskyBody == "{id:1001,total_price:1000.01,...}"
Bodies == {GarbageBody, RiskyBody}

\* webhooks.orders.created.tsx:49: JSON.parse, None when it throws a SyntaxError
JsonParse_Lenient(rawPayload) == Some(RiskyOrder)
JsonParse(rawPayload) ==
    IF rawPayload = RiskyBody THEN Some(RiskyOrder) ELSE None

\* webhooks.orders.created.tsx:35-39: the base64 HMAC-SHA256 digest of the raw body
\* under SHOPIFY_API_SECRET: never empty, and different for different bodies
HmacBase64(rawPayload) ==
    IF rawPayload = RiskyBody THEN "mac/risky=" ELSE "mac/garbage="

\* x-shopify-hmac-sha256: absent, empty, or the digest of one of the bodies
SignatureHeaders == {None, Some("")} \cup {Some(HmacBase64(b)) : b \in Bodies}

\* the deliveries explored; one whose body cannot be read carries no more than that
Requests ==
    [readable : {TRUE}, signature : SignatureHeaders, rawPayload : Bodies,
     shop : {None, Some(Shop)}]
      \cup [readable : {FALSE}, signature : {None}, rawPayload : {GarbageBody},
            shop : {Some(Shop)}]

\* store.server.ts:58-62, 140-144: findOne({ shopId })
FindByShop(collection, shopId) ==
    LET hits == SelectSeq(collection, LAMBDA doc : doc.shopId = shopId) IN
    IF hits = << >> THEN None ELSE Some(hits[1])

\* order.server.ts:88-91: findOne({ shopId, orderId })
GetOrderById(shopId, orderId) ==
    LET hits == SelectSeq(orders, LAMBDA doc : doc.shopId = shopId /\ doc.orderId = orderId) IN
    IF hits = << >> THEN None ELSE Some(hits[1])

\* riskAnalysis.server.ts:201-247 (identity fields and verdict); order.id.toString()
\* throws when the payload has no id
MapShopifyOrderToModel(order, shopId, riskAnalysis) ==
    IF IsSome(order.id)
    THEN Some([shopId |-> shopId, orderId |-> Get(order.id), riskAnalysis |-> riskAnalysis])
    ELSE None

\* order.server.ts:93-101: the document insertOne stores (its place in the collection
\* stands for the _id the driver assigns)
InsertedDoc(orderData) ==
    [shopId |-> orderData.shopId, orderId |-> orderData.orderId,
     riskAnalysis |-> orderData.riskAnalysis]

\* webhooks.orders.created.tsx:15 and :26
OkResponse == [status |-> 200, body |-> None]
CatchResponse_ServerError == [status |-> 500, body |-> None]
CatchResponse == [status |-> 200, body |-> None]

ScoreStages == {"score:settings", "score:trial"}
NotifyStages == {"notify:settings", "notify:trial", "notify:email", "notify:slack"}
AwaitStages == ScoreStages \cup {"write", "readback"} \cup NotifyStages

\* the try/catch that receives an exception raised at a stage: sendRiskNotifications'
\* own (part_000:10, 64-66) inside processWebhook's (webhooks.orders.created.tsx:47, 95-97)
CatchingHandler_NoInnerTry(stage) == "processWebhook"
CatchingHandler(stage) ==
    IF stage \in NotifyStages THEN "sendRiskNotifications" ELSE "processWebhook"

NoLocals ==
    [payload |-> None, shop |-> None, storeSettings |-> None, trialStatus |-> None,
     riskAnalysis |-> None, written |-> None, audience |-> {}, savedOrder |-> None,
     nSettings |-> None, nTrial |-> None]

\* a store with email and chat notifications configured
NotifyingSettings ==
    [DefaultStoreSettings(Shop) EXCEPT
        !.notifications = [email |-> [enabled |-> TRUE, address |-> "owner@shop.example"],
                           slack |-> [enabled |-> TRUE,
                                      webhookUrl |-> "https://hooks.slack.example/T1"],
                           frequency |-> "immediate"]]

\* the configurations the deliveries run against: no records at all, a pro tenant
\* without configuration record, the defaults of a free tenant, and a pro tenant
\* with notifications configured
PipelineConfigs ==
    { << << >>, << >> >>,
      << << >>, <<[DefaultTrialStatus(Shop) EXCEPT !.plan = "pro"]>> >>,
      << <<DefaultStoreSettings(Shop)>>, <<DefaultTrialStatus(Shop)>> >>,
      << <<NotifyingSettings>>, <<[DefaultTrialStatus(Shop) EXCEPT !.plan = "pro"]>> >> }

Init ==
    /\ riskIn = [order |-> PlainOrder, settings |-> None, trial |-> None]
    /\ riskOut = None
    /\ \E c \in PipelineConfigs : storeSettings = c[1] /\ trialStatus = c[2]
    /\ writes = << >>
    /\ orders = << >>
    /\ req = [d \in Deliveries |-> None]
    /\ pc = [d \in Deliveries |-> "idle"]
    /\ loc = [d \in Deliveries |-> NoLocals]
    /\ responses = [d \in Deliveries |-> << >>]
    /\ err = [d \in Deliveries |-> None]
    /\ trace = [d \in Deliveries |-> << >>]
    /\ dispatched = {}
    /\ shopConnections = NoConnections
    /\ sockets = [s \in Sockets |-> NewSocket]
    /\ broadcasts = << >>

\* Shopify posts an order-created event; the handler starts reading the body
\* (webhooks.orders.created.tsx:10-11)
Deliver(d) ==
    /\ pc[d] = "idle"
    /\ pc' = [pc EXCEPT ![d] = "readingBody"]
    /\ UNCHANGED <<riskVars, wsVars, storeVars, orders, req, loc, responses, err, trace, dispatched>>

\* webhooks.orders.created.tsx:31-63: processWebhook up to its first await.  Yields
\* the stage it stops at, the exception it caught and the locals it has set.
ProcessWebhookStart_SignatureRequired(r) ==
    LET payload == JsonParse(r.rawPayload) IN
    IF ~Truthy(r.signature) \/ Get(r.signature) # HmacBase64(r.rawPayload)
    THEN [pc |-> "done", err |-> None, loc |-> NoLocals, trace |-> <<"invalid-signature">>]
    ELSE IF payload = None
    THEN [pc |-> "done", err |-> Some([at |-> "parse", by |-> "processWebhook"]),
          loc |-> NoLocals, trace |-> << >>]
    ELSE IF ~Truthy(r.shop)
    THEN [pc |-> "done", err |-> None, loc |-> [NoLocals EXCEPT !.payload = payload],
          trace |-> <<"missing-shop">>]
    ELSE [pc |-> "score:settings", err |-> None,
          loc |-> [NoLocals EXCEPT !.payload = payload, !.shop = r.shop],
          trace |-> << >>]
ProcessWebhookStart(r) ==
    LET payload == JsonParse(r.rawPayload) IN
    IF Truthy(r.signature) /\ Get(r.signature) # HmacBase64(r.rawPayload)
    THEN [pc |-> "done", err |-> None, loc |-> NoLocals, trace |-> <<"invalid-signature">>]
    ELSE IF payload = None
    THEN [pc |-> "done", err |-> Some([at |-> "parse", by |-> "processWebhook"]),
          loc |-> NoLocals, trace |-> << >>]
    ELSE IF ~Truthy(r.shop)
    THEN [pc |-> "done", err |-> None, loc |-> [NoLocals EXCEPT !.payload = payload],
          trace |-> <<"missing-shop">>]
    ELSE [pc |-> "score:settings", err |-> None,
          loc |-> [NoLocals EXCEPT !.payload = payload, !.shop = r.shop],
          trace |-> << >>]

\* webhooks.orders.created.tsx:7-28.  The body read of request r completes: either
\* it throws and the catch answers, or the response is built, processWebhook runs up
\* to its first await and the response is returned.  ackFirst = FALSE is a handler
\* that would await processWebhook instead.
HandleRequest(d, ackFirst) ==
    /\ pc[d] = "readingBody"
    /\ \E r \in Requests :
       /\ req' = [req EXCEPT ![d] = Some(r)]
       /\ IF ~r.readable
          THEN /\ responses' = [responses EXCEPT ![d] = Append(@, CatchResponse)]
               /\ err' = [err EXCEPT ![d] = Some([at |-> "body", by |-> "action"])]
               /\ pc' = [pc EXCEPT ![d] = "done"]
               /\ UNCHANGED <<loc, trace>>
          ELSE LET p == ProcessWebhookStart(r) IN
               /\ responses' = [responses EXCEPT ![d] =
                                   IF ackFirst \/ p.pc = "done" THEN Append(@, OkResponse)
                                   ELSE @]
               /\ err' = [err EXCEPT ![d] = p.err]
               /\ pc' = [pc EXCEPT ![d] = p.pc]
               /\ loc' = [loc EXCEPT ![d] = p.loc]
               /\ trace' = [trace EXCEPT ![d] = p.trace]
    /\ UNCHANGED <<riskVars, wsVars, storeVars, orders, dispatched>>

Action_AwaitsProcessing(d) == HandleRequest(d, FALSE)
Action(d) == HandleRequest(d, TRUE)

\* riskAnalysis.server.ts:18: getStoreSettings returns
ScoreSettingsRead(d) ==
    /\ pc[d] = "score:settings"
    /\ loc' = [loc EXCEPT ![d].storeSettings = FindByShop(storeSettings, Get(loc[d].shop))]
    /\ pc' = [pc EXCEPT ![d] = "score:trial"]
    /\ UNCHANGED <<riskVars, wsVars, storeVars, orders, req, responses, err, trace, dispatched>>

\* a processWebhook that would notify right after scoring, before persisting
ScoreTrialRead_NotifyBeforeWrite(d) ==
    /\ pc[d] = "score:trial"
    /\ loc' = [loc EXCEPT ![d].trialStatus = FindByShop(trialStatus, Get(loc[d].shop))]
    /\ pc' = [pc EXCEPT ![d] = "notify:settings"]
    /\ trace' = [trace EXCEPT ![d] = @ \o <<"scored", "notify">>]
    /\ UNCHANGED <<riskVars, wsVars, storeVars, orders, req, responses, err, dispatched>>

\* riskAnalysis.server.ts:19-191 and webhooks.orders.created.tsx:66-73: getTrialStatus
\* returns, the verdict is computed, the order is mapped and createOrder is called
ScoreTrialRead(d) ==
    /\ pc[d] = "score:trial"
    /\ LET trial == FindByShop(trialStatus, Get(loc[d].shop))
           payload == Get(loc[d].payload)
           riskAnalysis == AnalyzeOrderRisk(payload, loc[d].storeSettings, trial)
           orderData == MapShopifyOrderToModel(payload, Get(loc[d].shop), riskAnalysis)
       IN  /\ loc' = [loc EXCEPT ![d].trialStatus = trial,
                                 ![d].riskAnalysis = Some(riskAnalysis)]
           /\ trace' = [trace EXCEPT ![d] = Append(@, "scored")]
           /\ IF orderData = None
              THEN /\ pc' = [pc EXCEPT ![d] = "done"]
                   /\ err' = [err EXCEPT ![d] =
                                 Some([at |-> "map", by |-> "processWebhook"])]
              ELSE /\ pc' = [pc EXCEPT ![d] = "write"]
                   /\ UNCHANGED err
    /\ UNCHANGED <<riskVars, wsVars, storeVars, orders, req, responses, dispatched>>

\* order.server.ts:93-101 and webhooks.orders.created.tsx:73-88: insertOne returns and
\* getOrderById is called.  audience remembers who was subscribed at that moment (a
\* history value the code does not keep).
OrderInserted(d) ==
    /\ pc[d] = "write"
    /\ LET doc == InsertedDoc(Get(MapShopifyOrderToModel(Get(loc[d].payload),
                                   Get(loc[d].shop), Get(loc[d].riskAnalysis))))
       IN  /\ orders' = Append(orders, doc)
           /\ loc' = [loc EXCEPT ![d].written = Some(doc),
                                 ![d].audience = OpenSubscribers(doc.shopId)]
    /\ trace' = [trace EXCEPT ![d] = Append(@, "written")]
    /\ pc' = [pc EXCEPT ![d] = "readback"]
    /\ UNCHANGED <<riskVars, wsVars, storeVars, req, responses, err, dispatched>>

\* webhooks.orders.created.tsx:88-93: getOrderById returns; sendRiskNotifications is
\* called when it found a record (part_000:12)
OrderReadBack(d) ==
    /\ pc[d] = "readback"
    /\ LET savedOrder == GetOrderById(Get(loc[d].shop), Get(Get(loc[d].payload).id)) IN
       /\ loc' = [loc EXCEPT ![d].savedOrder = savedOrder]
       /\ IF IsSome(savedOrder)
          THEN /\ pc' = [pc EXCEPT ![d] = "notify:settings"]
               /\ trace' = [trace EXCEPT ![d] = @ \o <<"readback", "notify">>]
          ELSE /\ pc' = [pc EXCEPT ![d] = "done"]
               /\ trace' = [trace EXCEPT ![d] = Append(@, "readback")]
    /\ UNCHANGED <<riskVars, wsVars, storeVars, orders, req, responses, err, dispatched>>

\* part_000:12: getStoreSettings returns
NotifySettingsRead(d) ==
    /\ pc[d] = "notify:settings"
    /\ loc' = [loc EXCEPT ![d].nSettings = FindByShop(storeSettings, Get(loc[d].shop))]
    /\ pc' = [pc EXCEPT ![d] = "notify:trial"]
    /\ UNCHANGED <<riskVars, wsVars, storeVars, orders, req, responses, err, trace, dispatched>>

\* the order sendRiskNotifications was handed
NotifiedOrder(d) ==
    IF IsSome(loc[d].savedOrder) THEN Get(loc[d].savedOrder)
    ELSE [shopId |-> Get(loc[d].shop), orderId |-> Get(Get(loc[d].payload).id),
          riskAnalysis |-> Get(loc[d].riskAnalysis)]

\* part_000:18-44: whether sendRiskNotifications gets past its four early returns
PassesNotificationPolicy_AnyLevel(level, settings, isPro) ==
    /\ IsSome(settings)
    /\ isPro \/ level = "high"
    /\ Get(settings).notifications.frequency = "immediate"
PassesNotificationPolicy_FreeGetsMedium(level, settings, isPro) ==
    /\ level = "high" \/ level = "medium"
    /\ IsSome(settings)
    /\ Get(settings).notifications.frequency = "immediate"
PassesNotificationPolicy_AnyFrequency(level, settings, isPro) ==
    /\ level = "high" \/ level = "medium"
    /\ IsSome(settings)
    /\ isPro \/ level = "high"
PassesNotificationPolicy(level, settings, isPro) ==
    /\ level = "high" \/ level = "medium"
    /\ IsSome(settings)
    /\ isPro \/ level = "high"
    /\ Get(settings).notifications.frequency = "immediate"

\* part_000:47
EmailWanted(settings) ==
    /\ Get(settings).notifications.email.enabled
    /\ Get(settings).notifications.email.address # ""

\* part_000:56
SlackWanted_PlanIgnored(settings, isPro) ==
    /\ Get(settings).notifications.slack.enabled
    /\ Get(settings).notifications.slack.webhookUrl # ""
SlackWanted(settings, isPro) ==
    /\ isPro
    /\ Get(settings).notifications.slack.enabled
    /\ Get(settings).notifications.slack.webhookUrl # ""

Notification(channel, d, to) ==
    [channel |-> channel, delivery |-> d, to |-> to,
     orderId |-> NotifiedOrder(d).orderId, level |-> NotifiedOrder(d).riskAnalysis.level]

\* part_000:13-61: getTrialStatus returns; the policy is evaluated and the first
\* wanted notification is handed to its transport (part_000:73-88, 94-103)
NotifyTrialRead(d) ==
    /\ pc[d] = "notify:trial"
    /\ LET trial == FindByShop(trialStatus, Get(loc[d].shop))
           settings == loc[d].nSettings
           isPro == IsPro(trial)
           level == NotifiedOrder(d).riskAnalysis.level
       IN  /\ loc' = [loc EXCEPT ![d].nTrial = trial]
           /\ IF ~PassesNotificationPolicy(level, settings, isPro)
              THEN /\ pc' = [pc EXCEPT ![d] = "done"]
                   /\ UNCHANGED <<dispatched, trace>>
              ELSE IF EmailWanted(settings)
              THEN /\ dispatched' = dispatched \cup {
                         Notification("email", d, Get(settings).notifications.email.address)}
                   /\ trace' = [trace EXCEPT ![d] = Append(@, "email")]
                   /\ pc' = [pc EXCEPT ![d] = "notify:email"]
              ELSE IF SlackWanted(settings, isPro)
              THEN /\ dispatched' = dispatched \cup {
                         Notification("slack", d, Get(settings).notifications.slack.webhookUrl)}
                   /\ trace' = [trace EXCEPT ![d] = Append(@, "slack")]
                   /\ pc' = [pc EXCEPT ![d] = "notify:slack"]
              ELSE /\ pc' = [pc EXCEPT ![d] = "done"]
                   /\ UNCHANGED <<dispatched, trace>>
    /\ UNCHANGED <<riskVars, wsVars, storeVars, orders, req, responses, err>>

\* part_000:48-61: sendEmailNotification returns; the chat notification follows
EmailSent(d) ==
    /\ pc[d] = "notify:email"
    /\ IF SlackWanted(loc[d].nSettings, IsPro(loc[d].nTrial))
       THEN /\ dispatched' = dispatched \cup {
                  Notification("slack", d, Get(loc[d].nSettings).notifications.slack.webhookUrl)}
            /\ trace' = [trace EXCEPT ![d] = Append(@, "slack")]
            /\ pc' = [pc EXCEPT ![d] = "notify:slack"]
       ELSE /\ pc' = [pc EXCEPT ![d] = "done"]
            /\ UNCHANGED <<dispatched, trace>>
    /\ UNCHANGED <<riskVars, wsVars, storeVars, orders, req, loc, responses, err>>

\* part_000:57-63: sendSlackNotification returns
SlackSent(d) ==
    /\ pc[d] = "notify:slack"
    /\ pc' = [pc EXCEPT ![d] = "done"]
    /\ UNCHANGED <<riskVars, wsVars, storeVars, orders, req, loc, responses, err, trace, dispatched>>

\* The awaited call of the current stage throws (a failed configuration read,
\* repository call or transport).  The innermost try/catch logs it: the catch of
\* sendRiskNotifications (part_000:64-66), after which processWebhook returns
\* normally, or the catch of processWebhook (webhooks.orders.created.tsx:95-97).
\* Neither rethrows, writes or responds.
AwaitRejects(d) ==
    /\ pc[d] \in AwaitStages
    /\ err' = [err EXCEPT ![d] = Some([at |-> pc[d], by |-> CatchingHandler(pc[d])])]
    /\ pc' = [pc EXCEPT ![d] = "done"]
    /\ UNCHANGED <<riskVars, wsVars, storeVars, orders, req, loc, responses, trace, dispatched>>

\* the steps of the deliveries in DS
HookNext(DS) ==
    \E d \in DS :
        \/ Deliver(d)
        \/ Action(d)
        \/ ScoreSettingsRead(d)
        \/ ScoreTrialRead(d)
        \/ OrderInserted(d)
        \/ OrderReadBack(d)
        \/ NotifySettingsRead(d)
        \/ NotifyTrialRead(d)
        \/ EmailSent(d)
        \/ SlackSent(d)
        \/ AwaitRejects(d)

Next == HookNext(Deliveries)

Spec == Init /\ [][Next]_vars

\* one delivery running beside the realtime channel
FanoutNext == HookNext({1}) \/ WsEvents

SpecFanout == Init /\ [][FanoutNext]_vars

\* websocket.server.ts:6-8: the server has been initialized, nothing is connected
RealtimeInit ==
    /\ riskIn = [order |-> PlainOrder, settings |-> None, trial |-> None]
    /\ riskOut = None
    /\ storeSettings = << >> /\ trialStatus = << >> /\ orders = << >>
    /\ writes = << >>
    /\ req = [d \in Deliveries |-> None]
    /\ pc = [d \in Deliveries |-> "idle"]
    /\ loc = [d \in Deliveries |-> NoLocals]
    /\ responses = [d \in Deliveries |-> << >>]
    /\ err = [d \in Deliveries |-> None]
    /\ trace = [d \in Deliveries |-> << >>]
    /\ dispatched = {}
    /\ shopConnections = NoConnections
    /\ sockets = [s \in Sockets |-> NewSocket]
    /\ broadcasts = << >>

RealtimeNext == WsEvents \/ Broadcasts

SpecRealtime == RealtimeInit /\ [][RealtimeNext]_vars

-----------------------------------------------------------------------------
(* The order repository called on its own: order.server.ts *)

RiskLevels == {"low", "medium", "high"}

\* an analyzed order of the given level, as stored (order.server.ts:46-60)
AnalyzedOrder(level) ==
    [shopId |-> Shop, orderId |-> OrderId,
     riskAnalysis |-> [score |-> IF level = "high" THEN DefaultHighThreshold
                                 ELSE IF level = "medium" THEN DefaultMediumThreshold
                                 ELSE 0,
                       level |-> level, factors |-> << >>, reviewed |-> FALSE,
                       status |-> "approved", ipAddress |-> None,
                       checkoutSpeed |-> None]]

\* order.server.ts:4-63: the fields an update may carry, each with a new value
UpdateFields == {"_id", "shopId", "orderId", "riskAnalysis"}

UpdateValue(field) ==
    CASE field = "_id" -> "65f0c0ffee"
      [] field = "shopId" -> OtherShop
      [] field = "orderId" -> PlainOrderId
      [] field = "riskAnalysis" ->
            [AnalyzedOrder("high").riskAnalysis EXCEPT !.reviewed = TRUE,
                                                       !.status = "declined"]

\* Partial<Order>: any subset of the fields
UpdateSets == { [f \in F |-> UpdateValue(f)] : F \in SUBSET UpdateFields }

\* order.server.ts:107-112: the document after $set; a field the update does not
\* carry keeps its value
SetFields(doc, updates) ==
    [f \in DOMAIN doc |-> IF f \in DOMAIN updates THEN updates[f] ELSE doc[f]]

\* the position of the first document matching { shopId, orderId }, 0 if none
FirstMatch(shopId, orderId) ==
    LET hits == {i \in DOMAIN orders :
                    orders[i].shopId = shopId /\ orders[i].orderId = orderId}
    IN  IF hits = {} THEN 0 ELSE CHOOSE i \in hits : \A j \in hits : i <= j

\* order.server.ts:93-101: createOrder(order)
CreateOrder(order) ==
    /\ Len(writes) < MaxWrites
    /\ writes' = Append(writes, "createOrder")
    /\ orders' = Append(orders, InsertedDoc(order))
    /\ UNCHANGED <<riskVars, wsVars, storeSettings, trialStatus, req, pc, loc,
                   responses, err, trace, dispatched>>

\* order.server.ts:103-115: updateOne({ shopId, orderId }, { $set: ... }) without
\* upsert.  The first matching document, if any, gets the fields set; the server
\* refuses a $set that would change _id, and then nothing is written.
UpdateOrder(shopId, orderId, updates) ==
    /\ Len(writes) < MaxWrites
    /\ writes' = Append(writes, "updateOrder")
    /\ LET i == FirstMatch(shopId, orderId) IN
       orders' = IF i = 0 \/ "_id" \in DOMAIN updates
                 THEN orders
                 ELSE [orders EXCEPT ![i] = SetFields(orders[i], updates)]
    /\ UNCHANGED <<riskVars, wsVars, storeSettings, trialStatus, req, pc, loc,
                   responses, err, trace, dispatched>>

\* the repository is empty
RepoInit ==
    /\ riskIn = [order |-> PlainOrder, settings |-> None, trial |-> None]
    /\ riskOut = None
    /\ storeSettings = << >> /\ trialStatus = << >> /\ orders = << >>
    /\ writes = << >>
    /\ req = [d \in Deliveries |-> None]
    /\ pc = [d \in Deliveries |-> "idle"]
    /\ loc = [d \in Deliveries |-> NoLocals]
    /\ responses = [d \in Deliveries |-> << >>]
    /\ err = [d \in Deliveries |-> None]
    /\ trace = [d \in Deliveries |-> << >>]
    /\ dispatched = {}
    /\ shopConnections = NoConnections
    /\ sockets = [s \in Sockets |-> NewSocket]
    /\ broadcasts = << >>

RepoNext ==
    \/ \E level \in {"low", "high"} : CreateOrder(AnalyzedOrder(level))
    \/ \E shopId \in {Shop, OtherShop}, orderId \in {OrderId, PlainOrderId},
          updates \in UpdateSets : UpdateOrder(shopId, orderId, updates)

SpecRepo == RepoInit /\ [][RepoNext]_vars

-----------------------------------------------------------------------------
(* sendRiskNotifications called on its own: notifications.server.ts *)

\* store.server.ts:22-33: every state of the notification settings
NotificationSets ==
    [email : [enabled : BOOLEAN, address : {"", "owner@shop.example"}],
     slack : [enabled : BOOLEAN, webhookUrl : {"", "https://hooks.slack.example/T1"}],
     frequency : {"immediate", "hourly", "daily"}]

NotifySettingsDocs ==
    { [DefaultStoreSettings(Shop) EXCEPT !.notifications = n] : n \in NotificationSets }

\* part_000:9: sendRiskNotifications(order, shopId) has been called and waits for
\* its first read
NotifyInit ==
    /\ riskIn = [order |-> PlainOrder, settings |-> None, trial |-> None]
    /\ riskOut = None
    /\ \E st \in OptOf(NotifySettingsDocs) : storeSettings = st
    /\ \E t \in OptOf(TrialDocs) : trialStatus = t
    /\ writes = << >>
    /\ \E level \in RiskLevels :
          /\ orders = << AnalyzedOrder(level) >>
          /\ loc = [d \in Deliveries |->
                      IF d = 1
                      THEN [NoLocals EXCEPT !.shop = Some(Shop),
                                            !.savedOrder = Some(AnalyzedOrder(level))]
                      ELSE NoLocals]
    /\ req = [d \in Deliveries |-> None]
    /\ pc = [d \in Deliveries |-> IF d = 1 THEN "notify:settings" ELSE "idle"]
    /\ responses = [d \in Deliveries |-> << >>]
    /\ err = [d \in Deliveries |-> None]
    /\ trace = [d \in Deliveries |-> IF d = 1 THEN <<"notify">> ELSE << >>]
    /\ dispatched = {}
    /\ shopConnections = NoConnections
    /\ sockets = [s \in Sockets |-> NewSocket]
    /\ broadcasts = << >>

NotifyNext ==
    \/ NotifySettingsRead(1)
    \/ NotifyTrialRead(1)
    \/ EmailSent(1)
    \/ SlackSent(1)
    \/ AwaitRejects(1)

SpecNotify == NotifyInit /\ [][NotifyNext]_vars

-----------------------------------------------------------------------------
(* The settings page and the configuration store: app.settings.tsx, store.server.ts *)

\* app.settings.tsx:48-49: the settings the form posts, a Partial<StoreSettings>
SettingsPatches ==
    { [automations |-> [DefaultAutomations EXCEPT !.holdHighRiskOrders = FALSE]],
      [notifications |-> NotifyingSettings.notifications] }

\* the requests the settings route serves: page loads and form posts of a shop
SettingsRequests ==
    [kind : {"loader"}, shop : {Shop, OtherShop}]
      \cup [kind : {"action"}, shop : {Shop, OtherShop}, settings : SettingsPatches]

SettingsStages ==
    {"settings:get", "settings:create",
     "update:first", "update:create", "update:second", "update:read"}

\* the position of the first configuration record matching { shopId }, 0 if none
FirstSettings(shopId) ==
    LET hits == {i \in DOMAIN storeSettings : storeSettings[i].shopId = shopId}
    IN  IF hits = {} THEN 0 ELSE CHOOSE i \in hits : \A j \in hits : i <= j

\* store.server.ts:122-125: updateOne({ shopId }, { $set: updatedSettings }) without
\* upsert; the first matching record, if any, gets the fields set
UpdateOneSettings(shopId, settings) ==
    LET i == FirstSettings(shopId) IN
    IF i = 0
    THEN storeSettings
    ELSE [storeSettings EXCEPT ![i] =
            [f \in DOMAIN @ |-> IF f \in DOMAIN settings THEN settings[f] ELSE @[f]]]

\* store.server.ts:110: insertOne(defaultSettings)
InsertDefaultSettings(shopId) == Append(storeSettings, DefaultStoreSettings(shopId))

\* app.settings.tsx:29-34 and 44-52: a request arrives; the session names the shop,
\* and the handler reaches its first store call
SettingsRequest(d) ==
    /\ pc[d] = "idle"
    /\ \E r \in SettingsRequests :
          /\ req' = [req EXCEPT ![d] = Some(r)]
          /\ loc' = [loc EXCEPT ![d].shop = Some(r.shop)]
          /\ pc' = [pc EXCEPT ![d] = IF r.kind = "loader" THEN "settings:get"
                                                        ELSE "update:first"]
    /\ UNCHANGED <<riskVars, wsVars, storeVars, orders, responses, err, trace, dispatched>>

\* app.settings.tsx:34-41: getStoreSettings answers; a record found is returned,
\* none found leads to createDefaultStoreSettings
LoaderSettingsRead(d) ==
    /\ pc[d] = "settings:get"
    /\ LET found == FindByShop(storeSettings, Get(loc[d].shop)) IN
       /\ loc' = [loc EXCEPT ![d].storeSettings = found]
       /\ IF found = None
          THEN /\ pc' = [pc EXCEPT ![d] = "settings:create"]
               /\ UNCHANGED responses
          ELSE /\ pc' = [pc EXCEPT ![d] = "done"]
               /\ responses' = [responses EXCEPT ![d] =
                                   Append(@, [status |-> 200, body |-> found])]
    /\ UNCHANGED <<riskVars, wsVars, storeVars, orders, req, err, trace, dispatched>>

\* app.settings.tsx:38 with store.server.ts:64-112: the default record is inserted
\* and returned
LoaderDefaultsInserted(d) ==
    /\ pc[d] = "settings:create"
    /\ storeSettings' = InsertDefaultSettings(Get(loc[d].shop))
    /\ loc' = [loc EXCEPT ![d].storeSettings = Some(DefaultStoreSettings(Get(loc[d].shop)))]
    /\ responses' = [responses EXCEPT ![d] =
                        Append(@, [status |-> 200,
                                   body |-> Some(DefaultStoreSettings(Get(loc[d].shop)))])]
    /\ pc' = [pc EXCEPT ![d] = "done"]
    /\ UNCHANGED <<riskVars, wsVars, trialStatus, writes, orders, req, err, trace, dispatched>>

\* store.server.ts:122-127: the first updateOne; matchedCount 0 leads to
\* createDefaultStoreSettings
UpdateFirst(d) ==
    /\ pc[d] = "update:first"
    /\ storeSettings' = UpdateOneSettings(Get(loc[d].shop), Get(req[d]).settings)
    /\ pc' = [pc EXCEPT ![d] = IF FirstSettings(Get(loc[d].shop)) = 0
                               THEN "update:create" ELSE "update:read"]
    /\ UNCHANGED <<riskVars, wsVars, trialStatus, writes, orders, req, loc, responses,
                   err, trace, dispatched>>

\* store.server.ts:129 with 64-112: the default record is inserted
UpdateDefaultsInserted(d) ==
    /\ pc[d] = "update:create"
    /\ storeSettings' = InsertDefaultSettings(Get(loc[d].shop))
    /\ pc' = [pc EXCEPT ![d] = "update:second"]
    /\ UNCHANGED <<riskVars, wsVars, trialStatus, writes, orders, req, loc, responses,
                   err, trace, dispatched>>

\* store.server.ts:130-133: the second updateOne
UpdateSecond(d) ==
    /\ pc[d] = "update:second"
    /\ storeSettings' = UpdateOneSettings(Get(loc[d].shop), Get(req[d]).settings)
    /\ pc' = [pc EXCEPT ![d] = "update:read"]
    /\ UNCHANGED <<riskVars, wsVars, trialStatus, writes, orders, req, loc, responses,
                   err, trace, dispatched>>

\* store.server.ts:136 and app.settings.tsx:54-58: the record is read back and returned
UpdateRead(d) ==
    /\ pc[d] = "update:read"
    /\ LET found == FindByShop(storeSettings, Get(loc[d].shop)) IN
       /\ loc' = [loc EXCEPT ![d].storeSettings = found]
       /\ responses' = [responses EXCEPT ![d] =
                           Append(@, [status |-> 200, body |-> found])]
    /\ pc' = [pc EXCEPT ![d] = "done"]
    /\ UNCHANGED <<riskVars, wsVars, storeVars, orders, req, err, trace, dispatched>>

\* a store call rejects: neither the loader, the action nor updateStoreSettings has
\* a try/catch, so the exception leaves the route handler and the request ends
SettingsAwaitRejects(d) ==
    /\ pc[d] \in SettingsStages
    /\ err' = [err EXCEPT ![d] = Some([at |-> pc[d], by |-> "caller"])]
    /\ pc' = [pc EXCEPT ![d] = "done"]
    /\ UNCHANGED <<riskVars, wsVars, storeVars, orders, req, loc, responses, trace, dispatched>>

\* a store without configuration records, or with the record of the shop
SettingsInit ==
    /\ riskIn = [order |-> PlainOrder, settings |-> None, trial |-> None]
    /\ riskOut = None
    /\ storeSettings \in { << >>, <<DefaultStoreSettings(Shop)>> }
    /\ trialStatus = << >> /\ orders = << >>
    /\ writes = << >>
    /\ req = [d \in Deliveries |-> None]
    /\ pc = [d \in Deliveries |-> "idle"]
    /\ loc = [d \in Deliveries |-> NoLocals]
    /\ responses = [d \in Deliveries |-> << >>]
    /\ err = [d \in Deliveries |-> None]
    /\ trace = [d \in Deliveries |-> << >>]
    /\ dispatched = {}
    /\ shopConnections = NoConnections
    /\ sockets = [s \in Sockets |-> NewSocket]
    /\ broadcasts = << >>

\* the requests run concurrently: between two store calls of one request any step
\* of another may happen
SettingsNext ==
    \E d \in Deliveries :
        \/ SettingsRequest(d)
        \/ LoaderSettingsRead(d)
        \/ LoaderDefaultsInserted(d)
        \/ UpdateFirst(d)
        \/ UpdateDefaultsInserted(d)
        \/ UpdateSecond(d)
        \/ UpdateRead(d)
        \/ SettingsAwaitRejects(d)

SpecSettings == SettingsInit /\ [][SettingsNext]_vars

-----------------------------------------------------------------------------
(* Properties of the webhook, checked under Spec (C6 under SpecFanout) *)

Contains(seq, x) == \E i \in DOMAIN seq : seq[i] = x

\* the number of documents of the order repository filed under (shopId, orderId)
RecordCount(shopId, orderId) ==
    Cardinality({i \in DOMAIN orders :
                    orders[i].shopId = shopId /\ orders[i].orderId = orderId})

\* C1: every delivery is answered with HTTP 200 and an empty body, whatever the
\* outcome: no response is anything else, and a delivery that has been handled has
\* its response.
C1_AlwaysAnswers200 ==
    \A d \in Deliveries :
        /\ \A i \in DOMAIN responses[d] :
              responses[d][i].status = 200 /\ responses[d][i].body = None
        /\ pc[d] \notin {"idle", "readingBody"} => responses[d] # << >>

\* C1 witness: the body read threw, the handler's catch answered 200
C1_Witness ==
    \E d \in Deliveries :
        /\ err[d] = Some([at |-> "body", by |-> "action"])
        /\ responses[d] = << [status |-> 200, body |-> None] >>

\* C2: exactly one response per delivery, produced before any configuration read,
\* repository write or notification call of processWebhook completes: there is never
\* a second response, and whenever the processing waits on such a call (which may
\* never return), has completed one or has failed in one, the one response is
\* already there.
C2_OneResponseBeforeProcessing ==
    \A d \in Deliveries :
        /\ Len(responses[d]) <= 1
        /\ (pc[d] \in AwaitStages \/ trace[d] # << >> \/ IsSome(err[d]))
              => Len(responses[d]) = 1

\* C2 witness: the repository write of a delivery is still pending (it may never
\* return) and another delivery's processing has failed downstream; each has its
\* single response
C2_Witness ==
    \E d, e \in Deliveries :
        /\ pc[d] = "write" /\ Len(responses[d]) = 1
        /\ IsSome(err[e]) /\ Get(err[e]).at \in AwaitStages /\ Len(responses[e]) = 1

\* C3: a delivery carrying a signature header whose value differs from the base64
\* HMAC-SHA256 of its raw body is never scored, never written to the order
\* repository and never notified.
C3_MismatchedSignatureRejected ==
    \A d \in Deliveries :
        (/\ IsSome(req[d])
         /\ Get(req[d]).readable
         /\ IsSome(Get(req[d]).signature)
         /\ Get(Get(req[d]).signature) # HmacBase64(Get(req[d]).rawPayload))
        => /\ loc[d].written = None
           /\ ~Contains(trace[d], "scored")
           /\ ~Contains(trace[d], "notify")

\* C4: the order repository holds at most one record per (tenant, external order id).
C4_OneRecordPerOrder ==
    \A i \in DOMAIN orders : RecordCount(orders[i].shopId, orders[i].orderId) <= 1

\* C5: the stages run in the order scoring, repository write, notification dispatch:
\* the dispatcher is invoked only after the record was written and read back, and
\* never for a delivery whose scoring or write failed or whose read-back found nothing.
C5_NotifyOnlyAfterWriteAndReadBack ==
    \A d \in Deliveries :
        /\ Contains(trace[d], "notify") =>
              /\ Len(trace[d]) >= 4
              /\ SubSeq(trace[d], 1, 4) = <<"scored", "written", "readback", "notify">>
              /\ IsSome(loc[d].written)
              /\ IsSome(loc[d].savedOrder)
              /\ Contains(orders, Get(loc[d].savedOrder))
        /\ (IsSome(err[d]) /\ Get(err[d]).at \in ScoreStages \cup {"map", "write", "readback"})
              => ~Contains(trace[d], "notify")
        /\ (pc[d] \in NotifyStages \/ \E n \in dispatched : n.delivery = d)
              => Contains(trace[d], "notify")

\* C5 witness: a delivery that went through all the stages and dispatched, and one
\* whose repository write failed
C5_Witness ==
    \E d, e \in Deliveries :
        /\ pc[d] = "done" /\ \E n \in dispatched : n.delivery = d
        /\ IsSome(err[e]) /\ Get(err[e]).at = "write"

\* C6: a delivery whose order record is persisted is followed by a new-order event
\* pushed to the connections registered and open for the tenant: once its processing
\* has ended without any failure, every socket that was subscribed when the record
\* was written and is still open has been sent the event.
C6_PersistedOrderIsBroadcast ==
    \A d \in Deliveries :
        (pc[d] = "done" /\ IsSome(loc[d].written) /\ err[d] = None) =>
            \A s \in loc[d].audience :
                sockets[s].readyState = OPEN =>
                    \E i \in DOMAIN sockets[s].sent :
                        /\ sockets[s].sent[i].type = "update"
                        /\ sockets[s].sent[i].data.event = "new_order"

\* C7: a failure inside sendRiskNotifications is caught by its own catch, never by
\* processWebhook's, the processing ends normally, and the record persisted before
\* the dispatcher ran is still in the repository, unchanged.
C7_NotificationFailureContained ==
    \A d \in Deliveries :
        (IsSome(err[d]) /\ Get(err[d]).at \in NotifyStages) =>
            /\ Get(err[d]).by = "sendRiskNotifications"
            /\ pc[d] = "done"
            /\ IsSome(loc[d].written)
            /\ Contains(orders, Get(loc[d].written))
            /\ RecordCount(Get(loc[d].written).shopId, Get(loc[d].written).orderId) >= 1

\* C7 witness: the email transport failed after the record was persisted
C7_Witness ==
    \E d \in Deliveries :
        /\ IsSome(err[d]) /\ Get(err[d]).at = "notify:email"
        /\ IsSome(loc[d].written)

\* the delivery's request has been read and handed to processWebhook
Handled(d) == req[d] # None /\ Get(req[d]).readable /\ pc[d] # "readingBody"

\* C21: a delivery whose body is not well-formed JSON, or that has no shop-domain
\* header, is dropped once acknowledged: it is never scored, never written to the
\* order repository, never notified, and whatever it raised was caught inside
\* processWebhook.
C21_MalformedOrShoplessAborted ==
    \A d \in Deliveries :
        (Handled(d) /\ (Get(req[d]).rawPayload = GarbageBody \/ Get(req[d]).shop = None))
        => /\ pc[d] = "done"
           /\ Len(responses[d]) = 1
           /\ ~Contains(trace[d], "scored")
           /\ ~Contains(trace[d], "written")
           /\ ~Contains(trace[d], "notify")
           /\ loc[d].written = None
           /\ \A n \in dispatched : n.delivery # d
           /\ err[d] # None => Get(err[d]).by = "processWebhook"

\* C21 witness: one delivery failed to parse and one, well-formed and correctly
\* signed, had no shop-domain header
C21_Witness ==
    \E d, e \in Deliveries :
        /\ Handled(d) /\ Get(req[d]).rawPayload = GarbageBody
        /\ err[d] = <<[at |-> "parse", by |-> "processWebhook"]>>
        /\ Handled(e) /\ Get(req[e]).rawPayload # GarbageBody
        /\ Get(req[e]).shop = None
        /\ Get(req[e]).signature # None /\ Get(req[e]).signature # <<"">>
        /\ trace[e] = <<"missing-shop">>

\* the notifications dispatched for a delivery: channel, recipient, order, level
DecisionsOf(d) ==
    { [channel |-> n.channel, to |-> n.to, orderId |-> n.orderId, level |-> n.level] :
        n \in {m \in dispatched : m.delivery = d} }

\* delivery d carries no signature header, delivery e the valid signature of its
\* body, and they agree on body and shop-domain header
UnsignedTwinOf(d, e) ==
    /\ Handled(d) /\ Handled(e)
    /\ Get(req[d]).signature = None
    /\ Get(req[e]).signature = <<HmacBase64(Get(req[e]).rawPayload)>>
    /\ Get(req[d]).rawPayload = Get(req[e]).rawPayload
    /\ Get(req[d]).shop = Get(req[e]).shop

\* C22: a delivery without signature header is processed like the same delivery
\* with a valid signature: once both have run to their end without a failed call,
\* they went through the same stages, stored the same order record and dispatched
\* the same notifications.
C22_UnsignedProcessedAsSigned ==
    \A d, e \in Deliveries :
        (UnsignedTwinOf(d, e) /\ pc[d] = "done" /\ pc[e] = "done"
           /\ err[d] = None /\ err[e] = None)
        => /\ trace[d] = trace[e]
           /\ loc[d].written = loc[e].written
           /\ loc[d].riskAnalysis = loc[e].riskAnalysis
           /\ DecisionsOf(d) = DecisionsOf(e)

\* C22 witness: an unsigned and a validly signed delivery of the same order have
\* both been stored and notified
C22_Witness ==
    \E d, e \in Deliveries :
        /\ UnsignedTwinOf(d, e)
        /\ pc[d] = "done" /\ pc[e] = "done" /\ err[d] = None /\ err[e] = None
        /\ loc[d].written # None /\ loc[e].written # None
        /\ DecisionsOf(d) # {} /\ DecisionsOf(e) # {}

\* the configuration store holds no record of the shop
NoConfigRecord(shopId) ==
    \A i \in DOMAIN storeSettings : storeSettings[i].shopId # shopId

\* what the deliveries of a shop without configuration record have come to: a
\* verdict levelled against 75/50 and approved, and nothing dispatched
NoConfigOutcome ==
    \A d \in Deliveries :
        (loc[d].shop # None /\ NoConfigRecord(Get(loc[d].shop))) =>
            /\ loc[d].storeSettings = None
            /\ loc[d].riskAnalysis # None =>
                  LET v == Get(loc[d].riskAnalysis) IN
                  /\ v.level = IF v.score >= 75 THEN "high"
                               ELSE IF v.score >= 50 THEN "medium" ELSE "low"
                  /\ v.status = "approved"
            /\ \A n \in dispatched : n.delivery # d
            /\ pc[d] \notin {"notify:email", "notify:slack"}

\* C29: for a tenant without configuration record every step of the pipeline leaves
\* the store without a record for it, its deliveries are scored against the
\* thresholds 75/50, their verdict is approved even at level high, and nothing is
\* dispatched for them.
C29_NoConfigRecordDefaults ==
    [][NoConfigRecord(Shop) => (NoConfigRecord(Shop) /\ NoConfigOutcome)']_vars

\* C29 witness: a pro tenant without configuration record; the delivery scored 90,
\* level high, was stored as approved and ran through the dispatcher
C29_Witness ==
    \E d \in Deliveries :
        /\ pc[d] = "done" /\ err[d] = None
        /\ loc[d].storeSettings = None
        /\ loc[d].written # None
        /\ Get(loc[d].written).riskAnalysis.level = "high"
        /\ Get(loc[d].written).riskAnalysis.status = "approved"
        /\ Contains(trace[d], "notify")
        /\ storeSettings = << >>

-----------------------------------------------------------------------------
(* Properties of the order repository, checked under SpecRepo *)

\* C20: an updateOrder call, whatever its updates, adds no record and leaves the
\* shop id and the external order id of every record as they were.
C20_UpdateKeepsIdentity ==
    [][writes' = Append(writes, "updateOrder") =>
          /\ Len(orders') = Len(orders)
          /\ \A i \in DOMAIN orders :
                /\ orders'[i].shopId = orders[i].shopId
                /\ orders'[i].orderId = orders[i].orderId
      ]_vars

-----------------------------------------------------------------------------
(* Properties of the configuration store, checked under SpecSettings *)

\* C30: whatever settings-page loads and updateStoreSettings calls have run, and
\* however their store calls interleaved, the store holds at most one configuration
\* record for each tenant.
C30_AtMostOneRecordPerTenant ==
    \A shopId \in {Shop, OtherShop} :
        Cardinality({i \in DOMAIN storeSettings : storeSettings[i].shopId = shopId}) <= 1

-----------------------------------------------------------------------------
(* Properties of the realtime channel, checked under SpecRealtime *)

\* socket s is in the connection set of some shop
IsRegistered(s) == \E k \in DOMAIN shopConnections : s \in shopConnections[k]

\* C16: a connection attempt without a shop query value is closed and never added
\* to the registry: every registry key is a non-empty shop id, it is the one its
\* sockets attached with, and no socket the server rejected is registered.
C16_NoShopNeverRegistered ==
    /\ \A k \in DOMAIN shopConnections :
          /\ k # ""
          /\ \A s \in shopConnections[k] : sockets[s].shopId = <<k>>
    /\ \A s \in Sockets :
          (sockets[s].readyState # CONNECTING /\ sockets[s].shopId = None) =>
              /\ ~IsRegistered(s)
              /\ sockets[s].closeCall # None
              /\ sockets[s].sent = << >>

\* C16 witness: one socket attached with an empty shop value and was closed by the
\* server while another one is registered
C16_Witness ==
    \E s, t \in Sockets :
        /\ sockets[s].closeCall # None /\ sockets[s].shopId = None
        /\ IsRegistered(t)

\* C17: a broadcastUpdate(shop, data) call sends exactly one update envelope to each
\* socket registered under shop whose readyState is OPEN, and nothing to any other
\* socket (closing or closed, registered under another shop, or not registered);
\* for a shop without registered sockets it sends nothing and returns.
C17_BroadcastFanout ==
    [][Len(broadcasts') > Len(broadcasts) =>
          LET call == broadcasts'[Len(broadcasts')]
              registered == IF call.shopId \in DOMAIN shopConnections
                            THEN shopConnections[call.shopId] ELSE {}
          IN  \A s \in Sockets :
                  sockets'[s] =
                      IF s \in registered /\ sockets[s].readyState = 1
                      THEN [sockets[s] EXCEPT
                               !.sent = Append(@, [type |-> "update", data |-> call.data])]
                      ELSE sockets[s]
      ]_vars

\* C17 witness: two broadcasts were made, and of two sockets registered under the
\* same shop the open one holds an update while the closing one holds none
C17_Witness ==
    /\ Len(broadcasts) = 2
    /\ \E s, t \in Sockets :
          /\ s # t
          /\ sockets[s].shopId = sockets[t].shopId
          /\ IsRegistered(s) /\ IsRegistered(t)
          /\ sockets[s].readyState = 1 /\ sockets[t].readyState = 2
          /\ \E i \in DOMAIN sockets[s].sent : sockets[s].sent[i].type = "update"
          /\ \A i \in DOMAIN sockets[t].sent : sockets[t].sent[i].type # "update"

\* C18: the registry never holds a shop whose connection set is empty.
C18_NoEmptyRegistryEntry ==
    \A k \in DOMAIN shopConnections : shopConnections[k] # {}

\* C18 witness: the last socket of a shop has closed after a broadcast, and the
\* registry is empty again
C18_Witness ==
    /\ DOMAIN shopConnections = {}
    /\ broadcasts # << >>
    /\ \E s \in Sockets : sockets[s].shopId # None /\ sockets[s].lastEvent = "close"

\* C19: a socket that attached with a shop id is registered until its close or
\* error event, and is no longer registered once either event has occurred on it.
C19_MemberUntilCloseOrError ==
    \A s \in Sockets :
        /\ (sockets[s].shopId # None /\ sockets[s].lastEvent = "connection")
              => IsRegistered(s)
        /\ sockets[s].lastEvent \in {"close", "error"} => ~IsRegistered(s)

\* C26: a connection rejected for lack of a shop id is closed with the WebSocket
\* policy-violation code 1008, and nothing was sent to it before.
C26_RejectedWithPolicyViolation ==
    \A s \in Sockets :
        (sockets[s].readyState # 0 /\ sockets[s].shopId = None) =>
            /\ sockets[s].closeCall # None
            /\ Get(sockets[s].closeCall).code = 1008
            /\ sockets[s].sent = << >>

\* C27: the channel keeps no backlog.  In every step a socket that attaches gets the
\* connection confirmation as its only message; a socket that is open when a
\* broadcast is made may get that broadcast's envelope; nothing else is ever sent,
\* so no broadcast reaches a socket that attached later or was not open then.
C27_NoBacklog ==
    [][\A s \in Sockets :
          IF sockets[s].readyState = 0 /\ sockets'[s].readyState = 1
          THEN sockets'[s].sent =
                  <<[type |-> "connection", message |-> "Connected to order updates"]>>
          ELSE IF Len(broadcasts') > Len(broadcasts) /\ sockets[s].readyState = 1
          THEN sockets'[s].sent \in
                  {sockets[s].sent,
                   Append(sockets[s].sent,
                          [type |-> "update", data |-> broadcasts'[Len(broadcasts')].data])}
          ELSE sockets'[s].sent = sockets[s].sent
      ]_vars

\* C27 witness: every broadcast was addressed to the shop of a socket that is open
\* now and holds the confirmation only (it attached after them), while another
\* socket of that shop received one
C27_Witness ==
    /\ broadcasts # << >>
    /\ \A i \in DOMAIN broadcasts : broadcasts[i].shopId = Shop
    /\ \E s, t \in Sockets :
          /\ sockets[s].readyState = 1 /\ sockets[s].shopId = <<Shop>>
          /\ Len(sockets[s].sent) = 1 /\ sockets[s].sent[1].type = "connection"
          /\ sockets[t].shopId = <<Shop>>
          /\ \E i \in DOMAIN sockets[t].sent : sockets[t].sent[i].type = "update"

-----------------------------------------------------------------------------
(* Properties of sendRiskNotifications, checked under SpecNotify *)

\* the call of sendRiskNotifications has returned
NotifyReturned == pc[1] = "done"

\* the tenant's settings ask for an immediate email and an immediate chat message
WantsEverything ==
    /\ storeSettings # << >>
    /\ storeSettings[1].notifications =
          [email |-> [enabled |-> TRUE, address |-> "owner@shop.example"],
           slack |-> [enabled |-> TRUE, webhookUrl |-> "https://hooks.slack.example/T1"],
           frequency |-> "immediate"]

\* C14: no email and no chat notification is ever dispatched for an order whose
\* verdict level is low, whatever the tenant's plan and notification settings.
C14_NoNotificationForLow ==
    /\ \A n \in dispatched : n.level # "low"
    /\ Get(loc[1].savedOrder).riskAnalysis.level = "low" =>
          /\ dispatched = {}
          /\ pc[1] \notin {"notify:email", "notify:slack"}

\* C14 witness: the call has returned for a low order of a pro tenant whose settings
\* ask for both notifications
C14_Witness ==
    /\ NotifyReturned
    /\ err[1] = None
    /\ Get(loc[1].savedOrder).riskAnalysis.level = "low"
    /\ WantsEverything
    /\ trialStatus # << >> /\ trialStatus[1].plan = "pro"
    /\ dispatched = {}

\* the tenant of the call is neither trial-active nor on the pro / business plan
FreeTier ==
    \/ trialStatus = << >>
    \/ ~trialStatus[1].isActive /\ trialStatus[1].plan \notin {"pro", "business"}

\* C15: for a tenant that is neither trial-active nor on the pro or business plan
\* nothing is dispatched unless the verdict level is high: a medium order of a
\* free-tier tenant produces no email and no chat notification.
C15_FreeTierOnlyHigh ==
    (FreeTier /\ Get(loc[1].savedOrder).riskAnalysis.level # "high") =>
        /\ dispatched = {}
        /\ pc[1] \notin {"notify:email", "notify:slack"}

\* C15 witness: the call has returned for a medium order of a free tenant whose
\* settings ask for both notifications
C15_Witness ==
    /\ NotifyReturned
    /\ err[1] = None
    /\ Get(loc[1].savedOrder).riskAnalysis.level = "medium"
    /\ WantsEverything
    /\ trialStatus # << >> /\ FreeTier
    /\ dispatched = {}

\* C23: with a delivery frequency other than immediate (hourly, daily) neither an
\* email nor a chat notification is dispatched, for every level and plan.
C23_NonImmediateNotDispatched ==
    (storeSettings # << >> /\ storeSettings[1].notifications.frequency # "immediate") =>
        /\ dispatched = {}
        /\ pc[1] \notin {"notify:email", "notify:slack"}

\* C23 witness: the call has returned for a high order of a pro tenant with both
\* channels configured and an hourly frequency
C23_Witness ==
    /\ NotifyReturned
    /\ err[1] = None
    /\ Get(loc[1].savedOrder).riskAnalysis.level = "high"
    /\ trialStatus # << >> /\ trialStatus[1].plan = "pro"
    /\ storeSettings # << >>
    /\ storeSettings[1].notifications.frequency = "hourly"
    /\ storeSettings[1].notifications.email = [enabled |-> TRUE,
                                                address |-> "owner@shop.example"]
    /\ storeSettings[1].notifications.slack.enabled
    /\ dispatched = {}

\* a chat notification has been handed to its transport
ChatDispatched == \E n \in dispatched : n.channel = "slack"

\* the conditions of a chat notification, read off the stored configuration
ChatConditions ==
    /\ Get(loc[1].savedOrder).riskAnalysis.level \in {"medium", "high"}
    /\ storeSettings # << >>
    /\ storeSettings[1].notifications.frequency = "immediate"
    /\ ~FreeTier
    /\ storeSettings[1].notifications.slack.enabled
    /\ storeSettings[1].notifications.slack.webhookUrl # ""

-----------------------------------------------------------------------------
(* Properties of analyzeOrderRisk, checked under SpecRisk *)

\* the tenant is neither trial-active nor on the pro / business plan, or has no
\* subscription record
NonProTenant(trial) ==
    \/ trial = None
    \/ ~Get(trial).isActive /\ Get(trial).plan \notin {"pro", "business"}

\* the thresholds the tenant configured, 75/50 without a configuration record
ConfiguredThresholds(settings) ==
    IF settings = None THEN [high |-> 75, medium |-> 50]
    ELSE Get(settings).riskThresholds

ProOnlyDescriptions == {"IP address tracking enabled",
                        "Order placed during unusual hours",
                        "Payment with gift card"}

\* what each description of a basic factor stands for in the score
BasicContribution(description) ==
    CASE description = "High value order" -> 20
      [] description = "Medium-high value order" -> 10
      [] description = "Billing and shipping addresses don't match" -> 15
      [] description = "Suspicious email domain" -> 25
      [] OTHER -> 0

RECURSIVE SumBasic(_)
SumBasic(descriptions) ==
    IF descriptions = << >> THEN 0
    ELSE BasicContribution(descriptions[1]) + SumBasic(Tail(descriptions))

DescriptionsOfFactor(f) ==
    CASE f = "orderValue" -> {"High value order", "Medium-high value order"}
      [] f = "addressMismatch" -> {"Billing and shipping addresses don't match"}
      [] f = "emailDomain" -> {"Suspicious email domain"}
      [] OTHER -> {}

\* C8: for every score and threshold pair (the default 75/50 included) the verdict's
\* level is high iff score >= high threshold, medium iff medium threshold <= score <
\* high threshold, and low otherwise.
C8_LevelIsStepFunctionOfScore ==
    IsSome(riskOut) =>
        LET v == Get(riskOut)
            th == ConfiguredThresholds(riskIn.settings)
        IN  /\ v.level = "high" <=> v.score >= th.high
            /\ v.level = "medium" <=> (th.medium <= v.score /\ v.score < th.high)
            /\ v.level = "low" <=> ~(v.score >= th.high)
                                     /\ ~(th.medium <= v.score /\ v.score < th.high)

\* C8 witness: without a configuration record a score of exactly 75 is level high
C8_Witness ==
    /\ IsSome(riskOut)
    /\ riskIn.settings = None
    /\ Get(riskOut).score = 75
    /\ Get(riskOut).level = "high"

\* C9: for a non-pro tenant the pro-only factors add no factor description and
\* nothing to the score (the score is the sum of the basic factors listed), for
\* every order and toggle state.
C9_NonProIgnoresProFactors ==
    (IsSome(riskOut) /\ NonProTenant(riskIn.trial)) =>
        LET v == Get(riskOut) IN
        /\ \A i \in DOMAIN v.factors : v.factors[i] \notin ProOnlyDescriptions
        /\ v.score = SumBasic(v.factors)

\* C9 witness: a free tenant with every toggle on, scored on an order with a captured
\* IP, a late hour and a gift card, gets only the three basic factors (60)
C9_Witness ==
    /\ IsSome(riskOut)
    /\ riskIn.trial = Some(DefaultTrialStatus(Shop))
    /\ riskIn.settings = Some(DefaultStoreSettings(Shop))
    /\ riskIn.order = RiskyOrder
    /\ Get(riskOut).score = 60

\* C10: for a non-pro tenant a basic factor (orderValue, addressMismatch, emailDomain)
\* whose toggle the tenant has disabled contributes nothing for every order.
C10_NonProBasicTogglesRespected ==
    (IsSome(riskOut) /\ NonProTenant(riskIn.trial) /\ IsSome(riskIn.settings)) =>
        \A f \in {"orderValue", "addressMismatch", "emailDomain"} :
            ~Get(riskIn.settings).riskFactors[f] =>
                \A i \in DOMAIN Get(riskOut).factors :
                    Get(riskOut).factors[i] \notin DescriptionsOfFactor(f)

\* the tenant has the factor switched on (every factor is on without a
\* configuration record)
FactorActive(settings, f) == settings = None \/ Get(settings).riskFactors[f]

\* what a field adds to the score: the score of the call minus the score of the
\* same call on the order without that field
ScoreShare(in, field) ==
    AnalyzeOrderRisk(in.order, in.settings, in.trial).score
      - AnalyzeOrderRisk([in.order EXCEPT ![field] = None], in.settings, in.trial).score

\* the order's total price in cents, when it is a number
IsPriced(order) == Len(order.total_price) = 2 /\ order.total_price[1] = "num"
PriceCents(order) == order.total_price[2]

\* C11: with the orderValue factor active the order value adds exactly 20 to the
\* score when total price > 1000, exactly 10 when 500 < total price <= 1000, and 0
\* otherwise (500 and 1000 themselves fall in the lower band); the verdict lists the
\* matching description and no other one of that factor.
C11_OrderValueBands ==
    (IsSome(riskOut) /\ FactorActive(riskIn.settings, "orderValue")) =>
        LET o == riskIn.order
            v == Get(riskOut)
            high == IsPriced(o) /\ PriceCents(o) > 100000
            mid == IsPriced(o) /\ 50000 < PriceCents(o) /\ PriceCents(o) <= 100000
        IN  /\ v.score = AnalyzeOrderRisk(o, riskIn.settings, riskIn.trial).score
            /\ ScoreShare(riskIn, "total_price")
                  = IF high THEN 20 ELSE IF mid THEN 10 ELSE 0
            /\ Contains(v.factors, "High value order") <=> high
            /\ Contains(v.factors, "Medium-high value order") <=> mid

\* C11 witness: a total price of exactly 1000.00 is scored as medium-high value
C11_Witness ==
    /\ IsSome(riskOut)
    /\ FactorActive(riskIn.settings, "orderValue")
    /\ riskIn.order.total_price = <<"num", 100000>>
    /\ Contains(Get(riskOut).factors, "Medium-high value order")

\* billing and shipping address are both present and differ in zip, city or country
AddressesDiffer(order) ==
    /\ order.billing_address # None
    /\ order.shipping_address # None
    /\ \E k \in {"zip", "city", "country"} :
          Get(order.billing_address)[k] # Get(order.shipping_address)[k]

\* C12: with the addressMismatch factor active the addresses add exactly 15 to the
\* score when both are present and differ in zip, city or country, and 0 when they
\* agree on the three fields or one of them is absent.
C12_AddressMismatchContribution ==
    (IsSome(riskOut) /\ FactorActive(riskIn.settings, "addressMismatch")) =>
        LET o == riskIn.order
            v == Get(riskOut)
        IN  /\ v.score = AnalyzeOrderRisk(o, riskIn.settings, riskIn.trial).score
            /\ ScoreShare(riskIn, "billing_address")
                  = IF AddressesDiffer(o) THEN 15 ELSE 0
            /\ Contains(v.factors, "Billing and shipping addresses don't match")
                  <=> AddressesDiffer(o)

\* C12 witness: addresses that differ in the city alone are scored as a mismatch
C12_Witness ==
    /\ IsSome(riskOut)
    /\ FactorActive(riskIn.settings, "addressMismatch")
    /\ riskIn.order.billing_address # None
    /\ riskIn.order.shipping_address # None
    /\ Get(riskIn.order.billing_address).zip = Get(riskIn.order.shipping_address).zip
    /\ Get(riskIn.order.billing_address).city # Get(riskIn.order.shipping_address).city
    /\ Contains(Get(riskOut).factors, "Billing and shipping addresses don't match")

\* the automation flag of the tenant, unset without a configuration record
AutomationSet(settings, flag) == settings # None /\ Get(settings).automations[flag]

\* C13: the status is on_hold if the level is high and holdHighRiskOrders is set,
\* whatever the other flags; else pending if high and flagForReview; else declined
\* if high and cancelHighRiskOrders; else approved. Every medium or low verdict is
\* approved.
C13_StatusPriority ==
    IsSome(riskOut) =>
        LET v == Get(riskOut)
            s == riskIn.settings
        IN  /\ v.status =
                  IF v.level = "high" /\ AutomationSet(s, "holdHighRiskOrders")
                  THEN "on_hold"
                  ELSE IF v.level = "high" /\ AutomationSet(s, "flagForReview")
                  THEN "pending"
                  ELSE IF v.level = "high" /\ AutomationSet(s, "cancelHighRiskOrders")
                  THEN "declined"
                  ELSE "approved"
            /\ v.level \in {"medium", "low"} => v.status = "approved"

\* C13 witness: a high verdict of a tenant with all three flags set is on hold
C13_Witness ==
    /\ IsSome(riskOut)
    /\ Get(riskOut).level = "high"
    /\ AutomationSet(riskIn.settings, "holdHighRiskOrders")
    /\ AutomationSet(riskIn.settings, "flagForReview")
    /\ AutomationSet(riskIn.settings, "cancelHighRiskOrders")
    /\ Get(riskOut).status = "on_hold"

\* C25: for a pro tenant with the ipLocation factor enabled, the verdict lists the
\* IP factor (worth 5) exactly when it carries a non-empty captured IP, taken from
\* the order's browser_ip or else from client_details.browser_ip.
C25_IpLocationIffCapturedIp ==
    (IsSome(riskOut) /\ ~NonProTenant(riskIn.trial)
       /\ FactorActive(riskIn.settings, "ipLocation")) =>
        LET v == Get(riskOut) IN
        /\ Contains(v.factors, "IP address tracking enabled")
              <=> (v.ipAddress # None /\ v.ipAddress # <<"">>)
        /\ v.ipAddress =
              IF riskIn.order.browser_ip \notin {None, <<"">>}
              THEN riskIn.order.browser_ip
              ELSE IF riskIn.order.client_details # None
              THEN Get(riskIn.order.client_details).browser_ip
              ELSE None

\* C28: for a non-pro tenant with the default thresholds 75/50 every order scores
\* at most 60, so the level is never high, the status is approved, and the
\* dispatcher's policy turns the verdict down (a free tenant is notified for high only).
C28_FreeTierDefaultsNeverHigh ==
    (IsSome(riskOut) /\ NonProTenant(riskIn.trial)
       /\ ConfiguredThresholds(riskIn.settings) = [high |-> 75, medium |-> 50]) =>
        LET v == Get(riskOut) IN
        /\ v.score <= 60
        /\ v.level \in {"low", "medium"}
        /\ v.status = "approved"
        /\ ~PassesNotificationPolicy(v.level, riskIn.settings, IsPro(riskIn.trial))

\* C28 witness: a free tenant with the default configuration and an order on which
\* the three basic factors trigger: 60, medium, approved
C28_Witness ==
    /\ IsSome(riskOut)
    /\ riskIn.trial = <<[shopId |-> Shop, isActive |-> FALSE, plan |-> "free"]>>
    /\ riskIn.settings # None
    /\ Get(riskIn.settings).riskThresholds = [high |-> 75, medium |-> 50]
    /\ Get(riskIn.settings).automations.holdHighRiskOrders
    /\ Get(riskOut).score = 60
    /\ Get(riskOut).level = "medium"
    /\ Get(riskOut).status = "approved"

====
